---- MODULE Spec2Model ----
\* AKF validation pipeline: Retry Controller (akf/retry_controller.py),
\* Error Normalizer (akf/error_normalizer.py), Commit Gate (akf/commit_gate.py),
\* Validation Engine (akf/validator.py) and Pipeline.generate (akf/pipeline.py).
EXTENDS Integers, Sequences, FiniteSets, TLC

\* ---------------------------------------------------------------------------
\* Bounds of the model
\* ---------------------------------------------------------------------------

\* max_attempts is drawn from 0..MaxAttemptsArg
MaxAttemptsArg == 3

\* most prompts in a batch
MaxPrompts == 2

\* number of threads calling TelemetryWriter.write, one call each
NThreads == 3

\* ---------------------------------------------------------------------------
\* Program constants
\* ---------------------------------------------------------------------------

MAX_ATTEMPTS == 3

TAGS_MIN == 3

SCHEMA_VERSION == "1.0.0"

\* 10 * 1024 * 1024 bytes; the file sizes of the model are counted in MiB
ROTATION_BYTES == 10

\* ---------------------------------------------------------------------------
\* Generic helpers
\* ---------------------------------------------------------------------------

RECURSIVE SelectSeqBy(_, _)
\* Python list comprehension [e for e in s if e.severity == sev]
SelectSeqBy(s, sev) ==
    IF s = <<>> THEN <<>>
    ELSE IF Head(s).severity = sev
         THEN <<Head(s)>> \o SelectSeqBy(Tail(s), sev)
         ELSE SelectSeqBy(Tail(s), sev)

Range(s) == {s[i] : i \in 1..Len(s)}

\* ---------------------------------------------------------------------------
\* akf/validation_error.py
\* ---------------------------------------------------------------------------

ErrorCode ==
    [INVALID_ENUM        |-> "E001_INVALID_ENUM",
     MISSING_FIELD       |-> "E002_MISSING_FIELD",
     INVALID_DATE_FORMAT |-> "E003_INVALID_DATE_FORMAT",
     TYPE_MISMATCH       |-> "E004_TYPE_MISMATCH",
     SCHEMA_VIOLATION    |-> "E005_SCHEMA_VIOLATION",
     TAXONOMY_VIOLATION  |-> "E006_TAXONOMY_VIOLATION",
     DATE_SEQUENCE       |-> "E007_DATE_SEQUENCE"]

Severity == [ERROR |-> "error", WARNING |-> "warning"]

\* dataclass ValidationError; expected is kept as a sequence of strings
\* (a one-element sequence for a scalar), received as a string
ValidationError(code, field, expected, received, severity) ==
    [code |-> code, field |-> field, expected |-> expected,
     received |-> received, severity |-> severity]

missing_field(field) ==
    ValidationError(ErrorCode.MISSING_FIELD, field, <<"present">>, "absent",
                    Severity.ERROR)

invalid_enum(field, expected, received) ==
    ValidationError(ErrorCode.INVALID_ENUM, field, expected, received,
                    Severity.ERROR)

invalid_date_format(field, received) ==
    ValidationError(ErrorCode.INVALID_DATE_FORMAT, field, <<"YYYY-MM-DD">>,
                    received, Severity.ERROR)

\* expected.__name__ and type(received).__name__ are passed as strings
type_mismatch(field, expected, received) ==
    ValidationError(ErrorCode.TYPE_MISMATCH, field, <<expected>>, received,
                    Severity.ERROR)

schema_violation(field, expected, received) ==
    ValidationError(ErrorCode.SCHEMA_VIOLATION, field, <<expected>>, received,
                    Severity.ERROR)

taxonomy_violation(field, received, valid_domains) ==
    ValidationError(ErrorCode.TAXONOMY_VIOLATION, field, valid_domains,
                    received, Severity.ERROR)

\* ---------------------------------------------------------------------------
\* akf/config.py
\* ---------------------------------------------------------------------------

DEFAULT_DOMAINS ==
    <<"ai-system", "api-design", "backend-engineering", "business-strategy",
      "consulting", "data-engineering", "devops", "frontend-engineering",
      "machine-learning", "mobile-engineering", "ontology",
      "product-management", "project-management", "security",
      "system-design", "testing", "ux-design">>

DEFAULT_ENUMS ==
    [type   |-> <<"concept", "guide", "reference", "checklist", "project",
                  "roadmap", "template", "audit">>,
     level  |-> <<"beginner", "intermediate", "advanced">>,
     status |-> <<"draft", "active", "completed", "archived">>]

\* ---------------------------------------------------------------------------
\* akf/error_normalizer.py
\* ---------------------------------------------------------------------------

\* one rendered instruction: the per-code template and the values it embeds
NormalizerRenderers ==
    {ErrorCode.INVALID_ENUM, ErrorCode.MISSING_FIELD,
     ErrorCode.INVALID_DATE_FORMAT, ErrorCode.TYPE_MISMATCH,
     ErrorCode.SCHEMA_VIOLATION, ErrorCode.TAXONOMY_VIOLATION,
     ErrorCode.DATE_SEQUENCE}

render_instruction(e) ==
    [template |-> IF e.code \in NormalizerRenderers THEN e.code ELSE "generic",
     field    |-> e.field,
     expected |-> e.expected,
     received |-> e.received]

normalize_errors(errs) ==
    LET blocking == SelectSeqBy(errs, Severity.ERROR)
        warnings == SelectSeqBy(errs, Severity.WARNING)
    IN [instructions        |-> [i \in 1..Len(blocking) |->
                                    render_instruction(blocking[i])],
        error_count         |-> Len(blocking),
        warning_count       |-> Len(warnings),
        has_blocking_errors |-> Len(blocking) > 0]

\* RetryPayload.to_prompt_text: "" when nothing blocks, else header + numbered lines
to_prompt_text(payload) ==
    IF ~payload.has_blocking_errors THEN <<>>
    ELSE <<[n |-> 0, text |-> "VALIDATION ERRORS"]>> \o
         [i \in 1..Len(payload.instructions) |->
             [n |-> i, text |-> payload.instructions[i].template]]

\* ---------------------------------------------------------------------------
\* Document texts
\* ---------------------------------------------------------------------------
\* A text is a sequence of lines, a line a sequence of tokens: the marker
\* "---", the separators ":" and " ", the quote characters, the brackets and
\* comma of a flow list, and atoms standing for runs of other characters.

Marker == <<"---">>

KV(k, v) == <<k, ":", " ">> \o v

DQ(x) == <<"\"", x, "\"">>

FlowList(n) ==
    <<"[">> \o [i \in 1..(IF n = 0 THEN 0 ELSE 2 * n - 1) |->
                   IF i % 2 = 1 THEN "tag" ELSE ","] \o <<"]">>

\* header of a document with the given field values (token sequences)
Header(title, type, domain, tags, created, updated) ==
    << KV("title", title), KV("type", type), KV("domain", domain),
       KV("level", <<"beginner">>), KV("status", <<"active">>),
       KV("tags", tags), KV("created", created), KV("updated", updated) >>

GoodHeader(title, domain) ==
    Header(<<title>>, <<"concept">>, <<domain>>, FlowList(3),
           <<"2026-01-01">>, <<"2026-03-01">>)

Doc(header, versionLines, body) ==
    <<Marker>> \o header \o versionLines \o <<Marker>> \o body

VersionLine(v) == <<KV("schema_version", v)>>

VALID_DOC == Doc(GoodHeader("Test", "api-design"), VersionLine(DQ("1.0.0")), <<<<"body">>>>)

FIXED_DOC == Doc(GoodHeader("Fixed", "devops"), VersionLine(<<"1.0.0">>), <<<<"body">>>>)

NO_SCHEMA_DOC == Doc(GoodHeader("Test", "api-design"), <<>>, <<<<"body">>>>)

WRONG_SCHEMA_DOC == Doc(GoodHeader("Test", "api-design"), VersionLine(DQ("2.0.0")), <<<<"body">>>>)

\* schema_version key with an empty value
EMPTY_SCHEMA_DOC == Doc(GoodHeader("Test", "api-design"), VersionLine(<<>>), <<<<"body">>>>)

\* schema_version only in the body, after the closing marker
BODY_SCHEMA_DOC ==
    Doc(GoodHeader("Test", "api-design"), <<>>, <<KV("schema_version", DQ("1.0.0"))>>)

\* no header at all
NO_FRONTMATTER_DOC == << <<"body">> >>

\* opening marker but no closing marker
UNTERMINATED_DOC == <<Marker>> \o GoodHeader("Test", "api-design") \o VersionLine(DQ("1.0.0"))

\* domain values outside the taxonomy
INVALID_DOC(domain) == Doc(GoodHeader("Test", domain), VersionLine(DQ("1.0.0")), <<<<"body">>>>)

\* type outside its enum
BAD_TYPE_DOC ==
    Doc(Header(<<"Test">>, <<"article">>, <<"api-design">>, FlowList(3),
               <<"2026-01-01">>, <<"2026-03-01">>),
        VersionLine(DQ("1.0.0")), <<<<"body">>>>)

\* created later than updated, two tags, numeric title
BAD_DATES_DOC ==
    Doc(Header(<<"42">>, <<"concept">>, <<"api-design">>, FlowList(2),
               <<"2026-03-01">>, <<"2026-01-01">>),
        VersionLine(DQ("1.0.0")), <<<<"body">>>>)

\* header that is YAML but a list, not a mapping
LIST_HEADER_DOC == <<Marker, <<"-", " ", "item">>, Marker, <<"body">>>>

\* header that is not YAML
BROKEN_YAML_DOC == <<Marker, <<"{", "title", ":", " ", "Test">>, Marker, <<"body">>>>

\* header with the given created and updated lines (none for a missing key)
DateDoc(createdLines, updatedLines) ==
    Doc(<< KV("title", <<"Test">>), KV("type", <<"concept">>),
           KV("domain", <<"api-design">>), KV("level", <<"beginner">>),
           KV("status", <<"active">>), KV("tags", FlowList(3)) >>
        \o createdLines \o updatedLines,
        VersionLine(DQ("1.0.0")), <<<<"body">>>>)

\* date values as written: unquoted and quoted dates, a quoted string that fits
\* the pattern but is no calendar date, free text, and an unquoted timestamp
DateTokens ==
    {<<"2026-01-01">>, <<"2026-03-01">>, DQ("2026-03-01"), DQ("2026-13-45"),
     <<"not-a-date">>, <<"2026-01-01T10:00:00">>}

DateLines(key) == {<<>>} \cup {<<KV(key, v)>> : v \in DateTokens}

DateDocs == {DateDoc(c, u) : c \in DateLines("created"), u \in DateLines("updated")}

\* header with a valid title and type and no other field
TITLE_TYPE_ONLY_DOC ==
    Doc(<< KV("title", <<"Test">>), KV("type", <<"concept">>) >>, <<>>, <<<<"body">>>>)

\* a defect for every check: level and updated missing, numeric title, type
\* outside its enum, domain outside the taxonomy, created no date, two tags
MANY_DEFECTS_DOC ==
    Doc(<< KV("title", <<"42">>), KV("type", <<"article">>),
           KV("domain", <<"backend">>), KV("status", <<"active">>),
           KV("tags", FlowList(2)), KV("created", <<"not-a-date">>) >>,
        VersionLine(DQ("1.0.0")), <<<<"body">>>>)

\* created a date, updated a timestamp with a time of day, all else valid
MIXED_DATES_DOC ==
    DateDoc(<<KV("created", <<"2026-01-01">>)>>,
            <<KV("updated", <<"2026-01-01T10:00:00">>)>>)

\* header that is YAML but a plain scalar
SCALAR_HEADER_DOC == <<Marker, <<"just", " ", "text">>, Marker, <<"body">>>>

RejectedDomains == {"backend", "cloud", "infra"}

AllDocs ==
    {VALID_DOC, FIXED_DOC, NO_SCHEMA_DOC, WRONG_SCHEMA_DOC, EMPTY_SCHEMA_DOC,
     BODY_SCHEMA_DOC, NO_FRONTMATTER_DOC, UNTERMINATED_DOC, BAD_TYPE_DOC,
     BAD_DATES_DOC, LIST_HEADER_DOC, BROKEN_YAML_DOC}
    \cup {INVALID_DOC(d) : d \in RejectedDomains}

\* ---------------------------------------------------------------------------
\* String operations on token sequences
\* ---------------------------------------------------------------------------

RECURSIVE LStrip(_, _)
LStrip(s, chars) ==
    IF s # <<>> /\ Head(s) \in chars THEN LStrip(Tail(s), chars) ELSE s

RECURSIVE RStrip(_, _)
RStrip(s, chars) ==
    IF s # <<>> /\ s[Len(s)] \in chars
    THEN RStrip(SubSeq(s, 1, Len(s) - 1), chars) ELSE s

\* str.strip(chars); str.strip() is Strip(s, {" "})
Strip(s, chars) == RStrip(LStrip(s, chars), chars)

\* str.startswith
StartsWith(s, prefix) ==
    Len(s) >= Len(prefix) /\ SubSeq(s, 1, Len(prefix)) = prefix

RECURSIVE AfterFirstColon(_)
\* s.split(":", 1)[1], for s containing a colon
AfterFirstColon(s) ==
    IF s = <<>> THEN <<>>
    ELSE IF Head(s) = ":" THEN Tail(s) ELSE AfterFirstColon(Tail(s))

\* the string a token sequence spells; the texts of the model reduce to one
\* atom wherever the program reads a value as a string
Join(s) == IF Len(s) = 1 THEN s[1] ELSE "<joined>"

\* Optional[str]
None == [some |-> FALSE, v |-> ""]

Some(x) == [some |-> TRUE, v |-> x]

\* ---------------------------------------------------------------------------
\* akf/commit_gate.py: header scanning
\* ---------------------------------------------------------------------------

\* variant: the quotes around the value are kept
ExtractValueKeepQuotes(stripped) ==
    LET value == Strip(AfterFirstColon(stripped), {" "})
    IN IF value # <<>> THEN Some(Join(value)) ELSE None

\* value = stripped.split(":", 1)[1].strip().strip('"').strip("'")
ExtractValue(stripped) ==
    LET value == Strip(Strip(Strip(AfterFirstColon(stripped), {" "}), {"\""}), {"'"})
    IN IF value # <<>> THEN Some(Join(value)) ELSE None

RECURSIVE ExtractFrom(_, _, _, _)
\* the loop of _extract_field from line i on (i = 1 is Python's index 0)
ExtractFrom(lines, i, in_frontmatter, prefix) ==
    IF i > Len(lines) THEN None
    ELSE LET stripped == Strip(lines[i], {" "})
         IN IF i = 1 /\ stripped = Marker
            THEN ExtractFrom(lines, i + 1, TRUE, prefix)
            ELSE IF in_frontmatter /\ stripped = Marker
            THEN None
            ELSE IF in_frontmatter /\ StartsWith(stripped, prefix)
            THEN ExtractValue(stripped)
            ELSE ExtractFrom(lines, i + 1, in_frontmatter, prefix)

extract_field(document, field_name) ==
    ExtractFrom(document, 1, FALSE, <<field_name, ":">>)

extract_schema_version(document) == extract_field(document, "schema_version")

\* variant: only the presence of the field is checked
check_schema_version_presence_only(document, expected) ==
    IF ~extract_field(document, "schema_version").some
    THEN <<schema_violation("schema_version", expected, "absent")>>
    ELSE <<>>

\* None (the empty list) when the version matches, else the violation
check_schema_version(document, expected) ==
    LET actual == extract_schema_version(document)
    IN IF ~actual.some
       THEN <<schema_violation("schema_version", expected, "absent")>>
       ELSE IF actual.v # expected
       THEN <<schema_violation("schema_version", expected, actual.v)>>
       ELSE <<>>

\* ---------------------------------------------------------------------------
\* akf/validator.py
\* ---------------------------------------------------------------------------

REQUIRED_FIELDS ==
    <<"title", "type", "domain", "level", "status", "tags", "created", "updated">>

\* strings matching DATE_PATTERN, and the ones datetime accepts, by calendar order
DatePatterned == {"2026-01-01", "2026-03-01", "2026-13-45"}

\* unquoted values PyYAML loads as datetime.datetime
DateTimeAtoms == {"2026-01-01T10:00:00"}

DateOrd(d) ==
    IF d = "2026-01-01" \/ d \in DateTimeAtoms THEN 1
    ELSE IF d = "2026-03-01" THEN 2 ELSE 0

IsIsoDate(d) == d \notin DateTimeAtoms /\ DateOrd(d) > 0

IntAtoms == {"42"}

\* a YAML value: t is its Python type, s its str(), n its length when a list
YamlValue(t, str, n) == [t |-> t, s |-> str, n |-> n]

YamlNull == YamlValue("NoneType", "None", 0)

\* PyYAML's resolution of one value of a block mapping
YamlScalar(v) ==
    IF v = <<>> THEN YamlNull
    ELSE IF Head(v) \in {"\"", "'"}
    THEN YamlValue("str", Join(Strip(v, {"\"", "'"})), 0)
    ELSE IF Head(v) = "["
    THEN YamlValue("list", "<list>", Cardinality({i \in 1..Len(v) : v[i] = "tag"}))
    ELSE IF Join(v) \in IntAtoms THEN YamlValue("int", Join(v), 0)
    ELSE IF Join(v) \in DateTimeAtoms THEN YamlValue("datetime", Join(v), 0)
    ELSE IF IsIsoDate(Join(v)) THEN YamlValue("date", Join(v), 0)
    ELSE YamlValue("str", Join(v), 0)

IsKVLine(line) == Len(line) >= 2 /\ line[2] = ":"

LineKey(line) == line[1]

\* yaml.safe_load of the header lines: the kind of the loaded value and,
\* for a mapping, its keys and values (a later duplicate key wins)
safe_load(ylines) ==
    LET n == Len(ylines)
        keys == {LineKey(ylines[i]) : i \in {j \in 1..n : IsKVLine(ylines[j])}}
        last(k) == CHOOSE i \in 1..n :
                      /\ IsKVLine(ylines[i]) /\ LineKey(ylines[i]) = k
                      /\ \A j \in (i + 1)..n : ~(IsKVLine(ylines[j]) /\ LineKey(ylines[j]) = k)
    IN IF n = 0 THEN [kind |-> "null", keys |-> {}, map |-> [k \in {} |-> YamlNull]]
       ELSE IF \E i \in 1..n : Head(ylines[i]) = "{"
       THEN [kind |-> "YAMLError", keys |-> {}, map |-> [k \in {} |-> YamlNull]]
       ELSE IF \A i \in 1..n : IsKVLine(ylines[i])
       THEN [kind |-> "dict", keys |-> keys,
             map  |-> [k \in keys |->
                         YamlScalar(Strip(AfterFirstColon(ylines[last(k)]), {" "}))]]
       ELSE IF \A i \in 1..n : Head(ylines[i]) = "-"
       THEN [kind |-> "list", keys |-> {}, map |-> [k \in {} |-> YamlNull]]
       ELSE IF n = 1
       THEN [kind |-> "str", keys |-> {}, map |-> [k \in {} |-> YamlNull]]
       ELSE [kind |-> "YAMLError", keys |-> {}, map |-> [k \in {} |-> YamlNull]]

FrontmatterError(expected, received) ==
    ValidationError(ErrorCode.SCHEMA_VIOLATION, "frontmatter", <<expected>>,
                    received, Severity.ERROR)

\* (metadata, parse_error): error is a list of zero or one ValidationError
parse_frontmatter(document) ==
    LET lines == document
        noMeta == [kind |-> "dict", keys |-> {}, map |-> [k \in {} |-> YamlNull]]
        closers == {i \in 2..Len(lines) : Strip(lines[i], {" "}) = Marker}
    IN IF lines = <<>> \/ Strip(lines[1], {" "}) # Marker
       THEN [metadata |-> noMeta,
             error |-> <<FrontmatterError("--- YAML block ---", "missing or malformed")>>]
       ELSE IF closers = {}
       THEN [metadata |-> noMeta,
             error |-> <<FrontmatterError("closing ---", "not found")>>]
       ELSE LET end == CHOOSE i \in closers : \A j \in closers : i <= j
                loaded == safe_load(SubSeq(lines, 2, end - 1))
            IN IF loaded.kind = "YAMLError"
               THEN [metadata |-> noMeta,
                     error |-> <<FrontmatterError("valid YAML", "YAMLError")>>]
               ELSE [metadata |-> IF loaded.kind = "null" THEN noMeta ELSE loaded,
                     error |-> <<>>]

\* dict.get(field): None for a missing key
MetaGet(metadata, field) ==
    IF field \in metadata.keys THEN metadata.map[field] ELSE YamlNull

RECURSIVE MissingFrom(_, _)
MissingFrom(fields, metadata) ==
    IF fields = <<>> THEN <<>>
    ELSE (IF Head(fields) \notin metadata.keys
          THEN <<missing_field(Head(fields))>> ELSE <<>>)
         \o MissingFrom(Tail(fields), metadata)

\* variant: the scan stops at the first missing field
check_required_fields_first_only(metadata) ==
    LET I == {i \in 1..Len(REQUIRED_FIELDS) : REQUIRED_FIELDS[i] \notin metadata.keys}
    IN IF I = {} THEN <<>>
       ELSE <<missing_field(REQUIRED_FIELDS[CHOOSE i \in I : \A j \in I : i <= j])>>

check_required_fields(metadata) == MissingFrom(REQUIRED_FIELDS, metadata)

check_title_type(metadata) ==
    LET title == MetaGet(metadata, "title")
    IN IF title.t = "NoneType" THEN <<>>
       ELSE IF title.t # "str" THEN <<type_mismatch("title", "str", title.t)>>
       ELSE <<>>

EnumCheck(metadata, field_name, valid_values) ==
    LET value == MetaGet(metadata, field_name)
    IN IF value.t # "NoneType" /\ ~(value.t = "str" /\ value.s \in Range(valid_values))
       THEN <<invalid_enum(field_name, valid_values, value.s)>>
       ELSE <<>>

check_enum_fields(metadata) ==
    EnumCheck(metadata, "type", DEFAULT_ENUMS.type)
    \o EnumCheck(metadata, "level", DEFAULT_ENUMS.level)
    \o EnumCheck(metadata, "status", DEFAULT_ENUMS.status)

check_taxonomy(metadata, valid_domains) ==
    LET domain == MetaGet(metadata, "domain")
    IN IF domain.t # "NoneType" /\ ~(domain.t = "str" /\ domain.s \in Range(valid_domains))
       THEN <<taxonomy_violation("domain", domain.s, valid_domains)>>
       ELSE <<>>

\* one pass of the loop of _check_dates: the error list and the resolved date
\* (0 for None, else the date's calendar order) with its Python type
DateField(metadata, field_name) ==
    LET value == MetaGet(metadata, field_name)
    IN IF value.t = "NoneType" THEN [errors |-> <<>>, resolved |-> 0, t |-> "NoneType"]
       ELSE IF value.t \in {"date", "datetime"}
       THEN [errors |-> <<>>, resolved |-> DateOrd(value.s), t |-> value.t]
       ELSE IF value.s \notin DatePatterned
       THEN [errors |-> <<invalid_date_format(field_name, value.s)>>, resolved |-> 0,
             t |-> "NoneType"]
       ELSE IF ~IsIsoDate(value.s)
       THEN [errors |-> <<invalid_date_format(field_name, value.s)>>, resolved |-> 0,
             t |-> "NoneType"]
       ELSE [errors |-> <<>>, resolved |-> DateOrd(value.s), t |-> "date"]

\* c > u raises TypeError when one side is a date and the other a datetime
check_dates_raises(metadata) ==
    LET c == DateField(metadata, "created")
        u == DateField(metadata, "updated")
    IN c.resolved # 0 /\ u.resolved # 0 /\ c.t # u.t

check_dates(metadata) ==
    LET c == DateField(metadata, "created")
        u == DateField(metadata, "updated")
    IN c.errors \o u.errors \o
       (IF c.resolved # 0 /\ u.resolved # 0 /\ c.resolved > u.resolved
        THEN <<ValidationError(ErrorCode.SCHEMA_VIOLATION, "created/updated",
                               <<"created <= updated">>, "created > updated",
                               Severity.ERROR)>>
        ELSE <<>>)

ListLenStr(n) ==
    IF n = 0 THEN "list with 0 items"
    ELSE IF n = 1 THEN "list with 1 items" ELSE "list with 2 items"

check_tags(metadata) ==
    LET tags == MetaGet(metadata, "tags")
    IN IF tags.t = "NoneType" THEN <<>>
       ELSE IF tags.t # "list" THEN <<type_mismatch("tags", "list", tags.t)>>
       ELSE IF tags.n < TAGS_MIN
       THEN <<ValidationError(ErrorCode.TYPE_MISMATCH, "tags",
                              <<"list with >= 3 items">>, ListLenStr(tags.n),
                              Severity.ERROR)>>
       ELSE <<>>

\* validate(document): the returned list, or raised = TRUE when the call ends
\* with an exception (metadata.get on a header that is not a mapping, or the
\* comparison of a date with a datetime in _check_dates)
validate(document) ==
    LET parsed == parse_frontmatter(document)
        metadata == parsed.metadata
    IN IF parsed.error # <<>>
       THEN [raised |-> FALSE, exc |-> "None", errors |-> parsed.error]
       ELSE IF metadata.kind # "dict"
       THEN [raised |-> TRUE, exc |-> "AttributeError", errors |-> <<>>]
       ELSE IF check_dates_raises(metadata)
       THEN [raised |-> TRUE, exc |-> "TypeError", errors |-> <<>>]
       ELSE [raised |-> FALSE, exc |-> "None",
             errors |-> check_required_fields(metadata)
                        \o check_title_type(metadata)
                        \o check_enum_fields(metadata)
                        \o check_taxonomy(metadata, DEFAULT_DOMAINS)
                        \o check_dates(metadata)
                        \o check_tags(metadata)]

\* ---------------------------------------------------------------------------
\* Inputs of the model
\* ---------------------------------------------------------------------------

\* the errors that callers and the validate_fn callback hand to the controller
\* and the gate: three taxonomy violations with different rejected values, an
\* enum violation, and a warning on the same (field, code) as the enum violation
ErrUniverse ==
    {taxonomy_violation("domain", d, DEFAULT_DOMAINS) : d \in RejectedDomains}
    \cup {invalid_enum("type", DEFAULT_ENUMS.type, "article"),
          ValidationError(ErrorCode.INVALID_ENUM, "type", DEFAULT_ENUMS.type,
                          "article", Severity.WARNING)}

\* error lists with at most one entry per field, in either order
ErrLists ==
    LET domainErrs == {e \in ErrUniverse : e.field = "domain"}
        typeErrs   == {e \in ErrUniverse : e.field = "type"}
    IN {<<>>}
       \cup {<<e>> : e \in ErrUniverse}
       \cup {<<d, t>> : d \in domainErrs, t \in typeErrs}
       \cup {<<t, d>> : d \in domainErrs, t \in typeErrs}

\* (writer, generation_id) pairs a direct caller passes
TelemetryArgs ==
    {<<"None", "g1">>, <<"ok", "None">>, <<"ok", "g1">>, <<"raises", "g1">>}

\* texts the generate_fn callback returns when run_retry_loop is called directly
RetryTexts == {VALID_DOC, INVALID_DOC("backend"), INVALID_DOC("cloud")}

\* documents a direct caller of run_retry_loop passes
RetryDocuments == {VALID_DOC, INVALID_DOC("backend")}

\* texts the provider returns inside Pipeline.generate
ProviderTexts ==
    {VALID_DOC, FIXED_DOC, NO_SCHEMA_DOC, WRONG_SCHEMA_DOC, NO_FRONTMATTER_DOC,
     BAD_TYPE_DOC, BAD_DATES_DOC, LIST_HEADER_DOC, MIXED_DATES_DOC,
     INVALID_DOC("backend"), INVALID_DOC("cloud"), INVALID_DOC("infra")}

\* texts a direct caller of validate passes, the empty text included
ValidateInputs ==
    AllDocs \cup DateDocs
    \cup {SCALAR_HEADER_DOC, TITLE_TYPE_ONLY_DOC, MANY_DEFECTS_DOC, <<>>}

OLD_CONTENT == << <<"old">> >>

Versions == {"1.0.0", "2.0.0"}

\* ---------------------------------------------------------------------------
\* State
\* ---------------------------------------------------------------------------

VARIABLES
    op,                 \* the entry point of this session
    target0,            \* the file at output_path when the session started
    pc,                 \* position in the running code
    exc,                \* the exception that left the entry point, or "None"
    writer,             \* telemetry writer: "None", "ok", or "raises" (write fails)
    generation_id,      \* "None" or the session's id
    events,             \* the telemetry log
    document,           \* run_retry_loop arguments
    errors,
    max_attempts,
    current_doc,        \* run_retry_loop locals
    current_errors,
    seen_hashes,
    attempt,
    new_doc,
    retry_result,       \* the RetryResult returned
    gen_log,            \* texts returned by generate_fn, in call order
    val_log,            \* error lists returned by validate_fn, in call order
    n_generate,         \* number of generate_fn calls started
    c_document,         \* commit arguments
    c_errors,
    expected_schema_version,
    c_total_attempts,
    c_rejected,
    target,             \* the file at output_path
    tmp,                \* the temporary file of _atomic_write
    commit_result,      \* the CommitResult returned
    content,            \* Pipeline.generate locals
    total_attempts,
    rejected_candidates,
    gen_result,         \* the GenerateResult returned
    inst,               \* the TelemetryWriter instance each thread calls write on
    tpc,                \* each thread's position in TelemetryWriter.write
    lock,               \* holder of each instance's _lock, or 0
    w_path,             \* each instance's _path, as the number of date suffixes
    t_target,           \* each thread's local variable target
    t_event,            \* the value each thread passes to write
    files,              \* the log files, by number of date suffixes
    prompts,            \* batch_generate: the number of prompts of the batch
    results             \* batch_generate: success of the results collected so far

teleVars == <<writer, generation_id, events>>

retryVars ==
    <<document, errors, max_attempts, current_doc, current_errors, seen_hashes,
      attempt, new_doc, retry_result, gen_log, val_log, n_generate>>

commitVars ==
    <<c_document, c_errors, expected_schema_version, c_total_attempts,
      c_rejected, target, tmp, commit_result>>

genVars == <<content, total_attempts, rejected_candidates, gen_result>>

writerVars == <<inst, tpc, lock, w_path, t_target, t_event, files>>

batchVars == <<prompts, results>>

pipelineVars ==
    <<op, target0, pc, exc, teleVars, retryVars, commitVars, genVars, batchVars>>

vars == <<pipelineVars, writerVars>>

\* ---------------------------------------------------------------------------
\* Result values
\* ---------------------------------------------------------------------------

AbortReason(tag, field, code, n) == [tag |-> tag, field |-> field, code |-> code, n |-> n]

NoReason == AbortReason("None", "", "", 0)

RetryResult(success, doc, attempts, abort_reason, errs) ==
    [returned |-> TRUE, success |-> success, document |-> doc,
     attempts |-> attempts, abort_reason |-> abort_reason, errors |-> errs]

NoRetryResult ==
    [returned |-> FALSE, success |-> FALSE, document |-> <<>>, attempts |-> 0,
     abort_reason |-> NoReason, errors |-> <<>>]

CommitResult(committed, path, blocking_errors, schema_version) ==
    [returned |-> TRUE, committed |-> committed, path |-> path,
     blocking_errors |-> blocking_errors, schema_version |-> schema_version]

NoCommitResult ==
    [returned |-> FALSE, committed |-> FALSE, path |-> "None",
     blocking_errors |-> <<>>, schema_version |-> ""]

GenerateResult(success, text, path, attempts, errs) ==
    [returned |-> TRUE, success |-> success, content |-> text, path |-> path,
     attempts |-> attempts, errors |-> errs]

NoGenerateResult ==
    [returned |-> FALSE, success |-> FALSE, content |-> <<>>, path |-> "None",
     attempts |-> 0, errors |-> <<>>]

Absent == [exists |-> FALSE, content |-> <<>>]

File(text) == [exists |-> TRUE, content |-> text]

\* ---------------------------------------------------------------------------
\* Telemetry emission (retry_controller._emit_attempt, commit_gate._emit_summary)
\* ---------------------------------------------------------------------------

to_record(e) ==
    [code |-> e.code, field |-> e.field, expected |-> e.expected,
     received |-> e.received, severity |-> e.severity]

\* the log after writer.write(event): a failing write is swallowed
WriterWrite(log, w, event) == IF w = "ok" THEN Append(log, event) ELSE log

\* writer.write(event) raises
WriterWriteRaises(w) == w = "raises"

\* variant: no except clause around the emission
PropagatesUncaught(raised) == raised

\* try: ... writer.write(event)  except Exception: pass
\* whether an exception raised inside the try block leaves the helper
Propagates(raised) == FALSE

\* an exception leaves _emit_attempt / _emit_summary
emit_raises(w, gid) ==
    IF w = "None" \/ gid = "None" THEN FALSE ELSE Propagates(WriterWriteRaises(w))

\* variant: only failed attempts are reported
emit_attempt_failures_only(log, w, gid, att, maxatt, is_final, converged, errs) ==
    IF w = "None" \/ gid = "None" \/ converged THEN log
    ELSE WriterWrite(log, w,
            [event_type       |-> "generation_attempt",
             generation_id    |-> gid,
             attempt          |-> att,
             max_attempts     |-> maxatt,
             is_final_attempt |-> is_final,
             converged        |-> converged,
             errors           |-> [i \in 1..Len(errs) |-> to_record(errs[i])]])

emit_attempt(log, w, gid, att, maxatt, is_final, converged, errs) ==
    IF w = "None" \/ gid = "None" THEN log
    ELSE WriterWrite(log, w,
            [event_type       |-> "generation_attempt",
             generation_id    |-> gid,
             attempt          |-> att,
             max_attempts     |-> maxatt,
             is_final_attempt |-> is_final,
             converged        |-> converged,
             errors           |-> [i \in 1..Len(errs) |-> to_record(errs[i])]])

emit_summary(log, w, gid, schema_ver, attempts, converged, abort_reason, rejected, final_domain) ==
    IF w = "None" \/ gid = "None" THEN log
    ELSE WriterWrite(log, w,
            [event_type          |-> "generation_summary",
             generation_id       |-> gid,
             schema_version      |-> schema_ver,
             total_attempts      |-> attempts,
             converged           |-> converged,
             abort_reason        |-> abort_reason,
             rejected_candidates |-> rejected,
             final_domain        |-> final_domain])

\* ---------------------------------------------------------------------------
\* akf/retry_controller.py
\* ---------------------------------------------------------------------------

\* SHA-256 of the text; distinct texts have distinct digests
hash(text) == <<"sha256", text>>

\* variant: the rejected value is part of the key
KeyWithReceived(e) == <<e.field, e.code, e.received>>

\* key = (error.field, error.code)
Key(e) == <<e.field, e.code>>

RECURSIVE FirstRepeated(_, _)
FirstRepeated(previous_keys, new_errors) ==
    IF new_errors = <<>> THEN NoReason
    ELSE IF Key(Head(new_errors)) \in previous_keys
         THEN AbortReason("convergence_failure", Head(new_errors).field,
                          Head(new_errors).code, 0)
         ELSE FirstRepeated(previous_keys, Tail(new_errors))

check_convergence(previous_errors, new_errors) ==
    FirstRepeated({Key(e) : e \in Range(previous_errors)}, new_errors)

\* the state run_retry_loop starts in
RetryEntry(doc, errs) ==
    /\ document' = doc
    /\ errors' = errs
    /\ current_doc' = doc
    /\ current_errors' = errs
    /\ seen_hashes' = {}
    /\ attempt' = 1
    /\ pc' = "retry_loop"

\* return of run_retry_loop to its caller
RetryReturn(res) ==
    /\ retry_result' = res
    /\ pc' = IF op = "run_retry_loop" THEN "done" ELSE "gen_after_retry"

\* variant: the range runs one attempt too far
LoopExhaustedOffByOne(att, maxatt) == att > maxatt + 1

\* for attempt in range(1, max_attempts + 1): the loop is over
LoopExhausted(att, maxatt) == att > maxatt

\* variant: the hash check never fires
IsRepeatNever(h, seen) == FALSE

\* doc_hash in seen_hashes
IsRepeat(h, seen) == h \in seen

\* what follows a call of an emission helper: A when the helper returned, the
\* exception leaving the entry point when it raised
EmitThen(A) ==
    IF emit_raises(writer, generation_id)
    THEN /\ exc' = "TelemetryError"
         /\ pc' = "raised"
         /\ UNCHANGED <<retry_result, commit_result, current_doc, current_errors,
                        attempt, seen_hashes>>
    ELSE A /\ UNCHANGED exc

\* head of the for loop: exhaustion, the no-blocking-error return, or on to the call
RetryLoopHead ==
    /\ pc = "retry_loop"
    /\ IF LoopExhausted(attempt, max_attempts)
       THEN RetryReturn(RetryResult(FALSE, current_doc, max_attempts,
                AbortReason("max_attempts_reached", "", "", max_attempts),
                current_errors))
       ELSE LET payload == normalize_errors(current_errors)
            IN IF ~payload.has_blocking_errors
               THEN RetryReturn(RetryResult(TRUE, current_doc, attempt - 1, NoReason, <<>>))
               ELSE /\ pc' = "retry_generate"
                    /\ UNCHANGED retry_result
    /\ UNCHANGED <<writerVars, batchVars, op, target0, exc, teleVars, document, errors, max_attempts, current_doc,
                   current_errors, seen_hashes, attempt, new_doc, gen_log, val_log,
                   n_generate, commitVars, genVars>>

\* variant: only the hash of the latest text is kept
AddHashKeepLatest(seen, h) == {h}

\* seen_hashes.add(doc_hash)
AddHash(seen, h) == seen \cup {h}

\* generate_fn returns a text; the hash check
RetryGenerate ==
    /\ pc = "retry_generate"
    /\ \E text \in (IF op = "run_retry_loop" THEN RetryTexts ELSE ProviderTexts) :
         /\ new_doc' = text
         /\ gen_log' = Append(gen_log, text)
         /\ n_generate' = n_generate + 1
         /\ IF IsRepeat(hash(text), seen_hashes)
            THEN /\ events' = emit_attempt(events, writer, generation_id, attempt,
                                           max_attempts, TRUE, FALSE, current_errors)
                 /\ EmitThen(/\ RetryReturn(RetryResult(FALSE, text, attempt,
                                    AbortReason("identical_output", "", "", 0),
                                    current_errors))
                             /\ UNCHANGED seen_hashes)
            ELSE /\ seen_hashes' = AddHash(seen_hashes, hash(text))
                 /\ pc' = "retry_validate"
                 /\ UNCHANGED <<events, retry_result, exc>>
    /\ UNCHANGED <<writerVars, batchVars, op, target0, writer, generation_id, document, errors, max_attempts,
                   current_doc, current_errors, attempt, val_log, commitVars, genVars>>

\* generate_fn raises: nothing in run_retry_loop or Pipeline.generate catches it
RetryGenerateRaises ==
    /\ pc = "retry_generate"
    /\ n_generate' = n_generate + 1
    /\ exc' = "generate_fn"
    /\ pc' = "raised"
    /\ UNCHANGED <<writerVars, batchVars, op, target0, teleVars, document, errors, max_attempts, current_doc,
                   current_errors, seen_hashes, attempt, new_doc, retry_result,
                   gen_log, val_log, commitVars, genVars>>

\* variant: the last attempt of an exhausted run is not marked final
IsFinalAbortOnly(abort_reason, att, maxatt) == abort_reason # NoReason

\* is_final = bool(abort_reason) or attempt == max_attempts
IsFinal(abort_reason, att, maxatt) == abort_reason # NoReason \/ att = maxatt

\* validate called directly: it returns its list, or an exception raised by
\* one of the checks leaves the call
ValidateCall ==
    /\ pc = "validate"
    /\ LET r == validate(document)
       IN IF r.raised
          THEN /\ exc' = r.exc
               /\ pc' = "raised"
               /\ UNCHANGED val_log
          ELSE /\ val_log' = <<r.errors>>
               /\ pc' = "done"
               /\ UNCHANGED exc
    /\ UNCHANGED <<writerVars, batchVars, op, target0, teleVars, document, errors, max_attempts,
                   current_doc, current_errors, seen_hashes, attempt, new_doc,
                   retry_result, gen_log, n_generate, commitVars, genVars>>

\* Pipeline.generate's validate_fn: validate, with any exception turned into []
PipelineValidate(doc) == IF validate(doc).raised THEN <<>> ELSE validate(doc).errors

\* validate_fn returns; success, convergence abort, or the next iteration
RetryValidate ==
    /\ pc = "retry_validate"
    /\ \E new_errors \in (IF op = "run_retry_loop" THEN ErrLists
                          ELSE {PipelineValidate(new_doc)}) :
         LET blocking == SelectSeqBy(new_errors, "error")
             abort_reason == check_convergence(current_errors, blocking)
             is_final == IsFinal(abort_reason, attempt, max_attempts)
         IN /\ val_log' = Append(val_log, new_errors)
            /\ IF blocking = <<>>
               THEN /\ events' = emit_attempt(events, writer, generation_id, attempt,
                                              max_attempts, TRUE, TRUE, <<>>)
                    /\ EmitThen(/\ RetryReturn(RetryResult(TRUE, new_doc, attempt,
                                                            NoReason, new_errors))
                                /\ UNCHANGED <<current_doc, current_errors, attempt>>)
               ELSE /\ events' = emit_attempt(events, writer, generation_id, attempt,
                                              max_attempts, is_final, FALSE, blocking)
                    /\ EmitThen(IF abort_reason # NoReason
                                THEN /\ RetryReturn(RetryResult(FALSE, new_doc, attempt,
                                                                abort_reason, blocking))
                                     /\ UNCHANGED <<current_doc, current_errors, attempt>>
                                ELSE /\ current_doc' = new_doc
                                     /\ current_errors' = blocking
                                     /\ attempt' = attempt + 1
                                     /\ pc' = "retry_loop"
                                     /\ UNCHANGED retry_result)
    /\ UNCHANGED <<writerVars, batchVars, op, target0, writer, generation_id, document, errors, max_attempts,
                   seen_hashes, new_doc, gen_log, n_generate, commitVars, genVars>>

\* validate_fn raises (only a caller-supplied callback can: the pipeline's wrapper
\* catches); run_retry_loop does not catch it
RetryValidateRaises ==
    /\ pc = "retry_validate"
    /\ op = "run_retry_loop"
    /\ exc' = "validate_fn"
    /\ pc' = "raised"
    /\ UNCHANGED <<writerVars, batchVars, op, target0, teleVars, retryVars, commitVars, genVars>>

\* ---------------------------------------------------------------------------
\* akf/commit_gate.py
\* ---------------------------------------------------------------------------

\* variant: the gate overlooks the supplied errors
CommitBlockingNone(errs) == <<>>

\* blocking = [e for e in errors if e.severity == Severity.ERROR]
CommitBlocking(errs) == SelectSeqBy(errs, Severity.ERROR)

\* variant: the temporary file is left behind
UnlinkSkipped(f) == f

\* os.unlink(tmp_path): the temporary file just created is removed
Unlink(f) == [exists |-> FALSE, content |-> <<>>]

\* return of commit to its caller
CommitReturn(res) ==
    /\ commit_result' = res
    /\ pc' = IF op = "commit" THEN "done" ELSE "gen_finish"

\* steps 1 and 2 of commit: blocking errors, then the schema_version check
CommitCheck ==
    /\ pc = "commit"
    /\ LET blocking == CommitBlocking(c_errors)
           version_error == check_schema_version(c_document, expected_schema_version)
       IN IF blocking # <<>>
          THEN /\ events' = emit_summary(events, writer, generation_id,
                                expected_schema_version, c_total_attempts, FALSE,
                                "blocking_errors", c_rejected, None)
               /\ EmitThen(CommitReturn(CommitResult(FALSE, "None", blocking,
                                                     expected_schema_version)))
          ELSE IF version_error # <<>>
          THEN /\ events' = emit_summary(events, writer, generation_id,
                                expected_schema_version, c_total_attempts, FALSE,
                                "schema_version_mismatch", c_rejected, None)
               /\ EmitThen(CommitReturn(CommitResult(FALSE, "None", version_error,
                                                     expected_schema_version)))
          ELSE /\ pc' = "aw_mkdir"
               /\ UNCHANGED <<events, commit_result, exc>>
    /\ UNCHANGED <<writerVars, batchVars, op, target0, writer, generation_id, retryVars, c_document, c_errors,
                   expected_schema_version, c_total_attempts, c_rejected, target,
                   tmp, genVars>>

\* an OSError of a step outside the try block leaves _atomic_write and commit
AwRaise(step) ==
    /\ exc' = step
    /\ pc' = "raised"

\* _atomic_write: target.parent.mkdir(parents=True, exist_ok=True)
AwMkdir ==
    /\ pc = "aw_mkdir"
    /\ \E ok \in BOOLEAN :
         IF ok THEN pc' = "aw_mkstemp" /\ UNCHANGED exc ELSE AwRaise("OSError(mkdir)")
    /\ UNCHANGED <<writerVars, batchVars, op, target0, teleVars, retryVars, commitVars, genVars>>

\* _atomic_write: tempfile.mkstemp creates an empty file next to the target
AwMkstemp ==
    /\ pc = "aw_mkstemp"
    /\ \E ok \in BOOLEAN :
         IF ok THEN /\ tmp' = File(<<>>)
                    /\ pc' = "aw_write"
                    /\ UNCHANGED exc
               ELSE AwRaise("OSError(mkstemp)") /\ UNCHANGED tmp
    /\ UNCHANGED <<writerVars, batchVars, op, target0, teleVars, retryVars, c_document, c_errors,
                   expected_schema_version, c_total_attempts, c_rejected, target,
                   commit_result, genVars>>

\* _atomic_write: f.write(content); a failing write leaves a prefix in the file
AwWrite ==
    /\ pc = "aw_write"
    /\ \/ /\ tmp' = File(c_document)
          /\ pc' = "aw_replace"
          /\ UNCHANGED exc
       \/ /\ \E k \in 0..(Len(c_document) - 1) : tmp' = File(SubSeq(c_document, 1, k))
          /\ exc' = "OSError(write)"
          /\ pc' = "aw_cleanup"
    /\ UNCHANGED <<writerVars, batchVars, op, target0, teleVars, retryVars, c_document, c_errors,
                   expected_schema_version, c_total_attempts, c_rejected, target,
                   commit_result, genVars>>

\* _atomic_write: os.replace(tmp_path, target), one atomic rename
AwReplace ==
    /\ pc = "aw_replace"
    /\ \/ /\ target' = tmp
          /\ tmp' = Absent
          /\ pc' = "commit_finish"
          /\ UNCHANGED exc
       \/ /\ exc' = "OSError(replace)"
          /\ pc' = "aw_cleanup"
          /\ UNCHANGED <<target, tmp>>
    /\ UNCHANGED <<writerVars, batchVars, op, target0, teleVars, retryVars, c_document, c_errors,
                   expected_schema_version, c_total_attempts, c_rejected,
                   commit_result, genVars>>

\* _atomic_write: the except branch unlinks the temporary file and re-raises
\* the exception in flight
AwCleanup ==
    /\ pc = "aw_cleanup"
    /\ tmp' = Unlink(tmp)
    /\ pc' = "raised"
    /\ UNCHANGED exc
    /\ UNCHANGED <<writerVars, batchVars, op, target0, teleVars, retryVars, c_document, c_errors,
                   expected_schema_version, c_total_attempts, c_rejected, target,
                   commit_result, genVars>>

\* step 4 of commit: the success summary and the committed result
CommitFinish ==
    /\ pc = "commit_finish"
    /\ events' = emit_summary(events, writer, generation_id, expected_schema_version,
                              c_total_attempts, TRUE, "None", c_rejected,
                              extract_field(c_document, "domain"))
    /\ EmitThen(CommitReturn(CommitResult(TRUE, "output_path", <<>>,
                                          expected_schema_version)))
    /\ UNCHANGED <<writerVars, batchVars, op, target0, writer, generation_id, retryVars, c_document, c_errors,
                   expected_schema_version, c_total_attempts, c_rejected, target,
                   tmp, genVars>>

\* ---------------------------------------------------------------------------
\* akf/pipeline.py: Pipeline.generate
\* ---------------------------------------------------------------------------

RECURSIVE RejectedFrom(_)
\* str(e.received) of the domain errors
RejectedFrom(errs) ==
    IF errs = <<>> THEN <<>>
    ELSE (IF Head(errs).field = "domain" /\ Head(errs).received # ""
          THEN <<Head(errs).received>> ELSE <<>>) \o RejectedFrom(Tail(errs))

\* final validation and the call of commit
GenCallCommit(text, attempts, rejected) ==
    /\ c_document' = text
    /\ c_errors' = PipelineValidate(text)
    /\ c_total_attempts' = attempts
    /\ c_rejected' = rejected
    /\ pc' = "commit"

\* get_provider or the first provider.generate fails: a failed GenerateResult
GenerateProviderFails ==
    /\ pc = "generate"
    /\ gen_result' = GenerateResult(FALSE, <<>>, "None", 0, <<"provider error">>)
    /\ pc' = "done"
    /\ UNCHANGED <<writerVars, batchVars, op, target0, exc, teleVars, retryVars, commitVars, content,
                   total_attempts, rejected_candidates>>

\* first generation, path resolution, initial validation; then the retry loop
\* when an error blocks, else straight to the final validation and commit
GenerateStart ==
    /\ pc = "generate"
    /\ \E text \in ProviderTexts :
         LET initial_errors == PipelineValidate(text)
             blocking == SelectSeqBy(initial_errors, Severity.ERROR)
         IN /\ content' = text
            /\ total_attempts' = 1
            /\ rejected_candidates' = <<>>
            /\ IF blocking # <<>>
               THEN /\ RetryEntry(text, blocking)
                    /\ UNCHANGED <<c_document, c_errors, c_total_attempts, c_rejected>>
               ELSE /\ GenCallCommit(text, 1, <<>>)
                    /\ UNCHANGED <<document, errors, current_doc, current_errors,
                                   seen_hashes, attempt>>
    /\ UNCHANGED <<writerVars, batchVars, op, target0, exc, teleVars, max_attempts, new_doc, retry_result, gen_log,
                   val_log, n_generate, expected_schema_version, target, tmp,
                   commit_result, gen_result>>

\* after run_retry_loop returns: take over its document and attempts, collect
\* the rejected domain values, validate once more and call commit
GenAfterRetry ==
    /\ pc = "gen_after_retry"
    /\ content' = retry_result.document
    /\ total_attempts' = retry_result.attempts
    /\ rejected_candidates' = rejected_candidates \o RejectedFrom(retry_result.errors)
    /\ GenCallCommit(retry_result.document, retry_result.attempts,
                     rejected_candidates \o RejectedFrom(retry_result.errors))
    /\ UNCHANGED <<writerVars, batchVars, op, target0, exc, teleVars, retryVars, expected_schema_version, target,
                   tmp, commit_result, gen_result>>

\* after commit returns: report success, or write the rejected content to the
\* output path with write_text and report failure
GenFinish ==
    /\ pc = "gen_finish"
    /\ IF commit_result.committed
       THEN /\ gen_result' = GenerateResult(TRUE, content, commit_result.path,
                                            total_attempts, <<>>)
            /\ UNCHANGED target
       ELSE /\ target' = File(content)
            /\ gen_result' = GenerateResult(FALSE, content, "output_path",
                                 total_attempts, commit_result.blocking_errors)
    /\ pc' = "done"
    /\ UNCHANGED <<writerVars, batchVars, op, target0, exc, teleVars, retryVars, c_document, c_errors,
                   expected_schema_version, c_total_attempts, c_rejected, tmp,
                   commit_result, content, total_attempts, rejected_candidates>>

\* batch_generate: the result of self.generate is appended to results; the loop
\* goes on with the next prompt, a new session with its own generation id and
\* output path (events shows the events of the running session), or returns
BatchNext ==
    /\ op = "generate" /\ pc = "done"
    /\ results' = Append(results, gen_result.success)
    /\ IF Len(results) + 1 < prompts
       THEN /\ pc' = "generate"
            /\ events' = <<>>
            /\ document' = <<>> /\ errors' = <<>> /\ current_doc' = <<>>
            /\ current_errors' = <<>> /\ seen_hashes' = {} /\ attempt' = 1
            /\ new_doc' = <<>> /\ retry_result' = NoRetryResult
            /\ gen_log' = <<>> /\ val_log' = <<>> /\ n_generate' = 0
            /\ c_document' = <<>> /\ c_errors' = <<>> /\ c_total_attempts' = 1
            /\ c_rejected' = <<>>
            /\ target' = Absent /\ target0' = Absent /\ tmp' = Absent
            /\ commit_result' = NoCommitResult
            /\ content' = <<>> /\ total_attempts' = 0 /\ rejected_candidates' = <<>>
            /\ gen_result' = NoGenerateResult
            /\ UNCHANGED <<max_attempts, expected_schema_version>>
       ELSE /\ pc' = "batch_done"
            /\ UNCHANGED <<target0, events, retryVars, commitVars, genVars>>
    /\ UNCHANGED <<writerVars, op, exc, writer, generation_id, prompts>>

\* ---------------------------------------------------------------------------
\* akf/telemetry.py: TelemetryWriter.write called by concurrent threads
\* ---------------------------------------------------------------------------

Threads == 1..NThreads

\* a log file: the size of what it held before the writes of the model, and
\* the pieces appended since; a line is appended as two pieces of 1 MiB, the
\* second ending in the newline
NoLog == [exists |-> FALSE, base |-> 0, chunks |-> <<>>]

OldLog(n) == [exists |-> TRUE, base |-> n, chunks |-> <<>>]

\* path.stat().st_size
Size(f) == f.base + Len(f.chunks)

\* self._path.with_name(f"{stem}_{suffix}{self._path.suffix}"): one more date suffix
RotatedName(path) == path + 1

\* _resolve_path: the path the instance writes to from now on
resolve_path(path) ==
    IF files[path].exists /\ Size(files[path]) >= ROTATION_BYTES
    THEN RotatedName(path) ELSE path

\* variant: a lock of its own for every call
LockOfCall(t) == t

\* self._lock: one lock per TelemetryWriter instance
LockOf(t) == inst[t]

\* variant: the lock never blocks
CanAcquireAlways(holder) == TRUE

\* with self._lock: entry blocks while another thread holds the lock
CanAcquire(holder) == holder = 0

\* the values passed to write: an instance of one of the two event classes,
\* or any other value
EventKinds == {"event", "other"}

\* write is called: the isinstance check, then json.dumps of the event
WriteCall(t) ==
    /\ tpc[t] = "idle"
    /\ \E ev \in EventKinds :
         /\ t_event' = [t_event EXCEPT ![t] = ev]
         /\ tpc' = [tpc EXCEPT ![t] = IF ev = "other" THEN "TypeError" ELSE "acquire"]
    /\ UNCHANGED <<pipelineVars, inst, lock, w_path, t_target, files>>

\* with self._lock: the lock is taken
WriteAcquire(t) ==
    /\ tpc[t] = "acquire"
    /\ CanAcquire(lock[LockOf(t)])
    /\ lock' = [lock EXCEPT ![LockOf(t)] = t]
    /\ tpc' = [tpc EXCEPT ![t] = "resolve"]
    /\ UNCHANGED <<pipelineVars, inst, w_path, t_target, t_event, files>>

\* target = self._resolve_path(): the rotation check and the update of _path
WriteResolve(t) ==
    /\ tpc[t] = "resolve"
    /\ w_path' = [w_path EXCEPT ![inst[t]] = resolve_path(w_path[inst[t]])]
    /\ t_target' = [t_target EXCEPT ![t] = resolve_path(w_path[inst[t]])]
    /\ tpc' = [tpc EXCEPT ![t] = "open"]
    /\ UNCHANGED <<pipelineVars, inst, lock, t_event, files>>

\* target.parent.mkdir and open(target, "a"): the file exists afterwards; an
\* OSError leaves both with-blocks, which releases the lock
WriteOpen(t) ==
    /\ tpc[t] = "open"
    /\ \/ /\ files' = [files EXCEPT ![t_target[t]].exists = TRUE]
          /\ tpc' = [tpc EXCEPT ![t] = "write_head"]
          /\ UNCHANGED lock
       \/ /\ lock' = [lock EXCEPT ![LockOf(t)] = 0]
          /\ tpc' = [tpc EXCEPT ![t] = "OSError"]
          /\ UNCHANGED files
    /\ UNCHANGED <<pipelineVars, inst, w_path, t_target, t_event>>

\* f.write(line + "\n"): the first piece of the line reaches the file
WriteHead(t) ==
    /\ tpc[t] = "write_head"
    /\ files' = [files EXCEPT ![t_target[t]].chunks = Append(@, <<t, "head">>)]
    /\ tpc' = [tpc EXCEPT ![t] = "write_tail"]
    /\ UNCHANGED <<pipelineVars, inst, lock, w_path, t_target, t_event>>

\* the rest of the line with its newline reaches the file
WriteTail(t) ==
    /\ tpc[t] = "write_tail"
    /\ files' = [files EXCEPT ![t_target[t]].chunks = Append(@, <<t, "tail">>)]
    /\ tpc' = [tpc EXCEPT ![t] = "close"]
    /\ UNCHANGED <<pipelineVars, inst, lock, w_path, t_target, t_event>>

\* end of both with-blocks: the file is closed, the lock released
WriteRelease(t) ==
    /\ tpc[t] = "close"
    /\ lock' = [lock EXCEPT ![LockOf(t)] = 0]
    /\ tpc' = [tpc EXCEPT ![t] = "done"]
    /\ UNCHANGED <<pipelineVars, inst, w_path, t_target, t_event, files>>

\* ---------------------------------------------------------------------------
\* Specification
\* ---------------------------------------------------------------------------

\* values of the variables an entry point does not use
IdleRetry ==
    /\ document = <<>> /\ errors = <<>> /\ current_doc = <<>>
    /\ current_errors = <<>> /\ seen_hashes = {} /\ attempt = 1

IdleCommit ==
    /\ c_document = <<>> /\ c_errors = <<>> /\ c_total_attempts = 1
    /\ c_rejected = <<>>

\* the threads of the writer model do not run
IdleWriter ==
    /\ inst = [t \in Threads |-> 1]
    /\ tpc = [t \in Threads |-> "off"]
    /\ lock = [i \in Threads |-> 0]
    /\ w_path = [i \in Threads |-> 0]
    /\ t_target = [t \in Threads |-> 0]
    /\ t_event = [t \in Threads |-> "None"]
    /\ files = [q \in 0..(NThreads + 1) |-> NoLog]

\* run_retry_loop called directly with any document, error list and max_attempts
InitRetry ==
    /\ op = "run_retry_loop" /\ pc = "retry_loop"
    /\ prompts = 0
    /\ \E t \in TelemetryArgs : writer = t[1] /\ generation_id = t[2]
    /\ document \in RetryDocuments
    /\ errors \in ErrLists
    /\ max_attempts \in 0..MaxAttemptsArg
    /\ current_doc = document /\ current_errors = errors
    /\ seen_hashes = {} /\ attempt = 1
    /\ IdleCommit
    /\ expected_schema_version = SCHEMA_VERSION
    /\ target = Absent

\* commit called directly with any document, error list, expected version and
\* an output path that is absent or holds older content
InitCommit ==
    /\ op = "commit" /\ pc = "commit"
    /\ prompts = 0
    /\ \E t \in TelemetryArgs : writer = t[1] /\ generation_id = t[2]
    /\ c_document \in AllDocs
    /\ c_errors \in ErrLists
    /\ expected_schema_version \in Versions
    /\ c_total_attempts = 1 /\ c_rejected = <<>>
    /\ target \in {Absent, File(OLD_CONTENT)}
    /\ IdleRetry
    /\ max_attempts = MAX_ATTEMPTS

\* Pipeline.generate: a fresh writer and generation id, a fresh output path,
\* the default max_attempts and expected version
InitGenerate ==
    /\ op = "generate" /\ pc = "generate"
    /\ prompts \in 1..MaxPrompts
    /\ writer \in {"ok", "raises"}
    /\ generation_id = "g1"
    /\ IdleRetry /\ IdleCommit
    /\ max_attempts = MAX_ATTEMPTS
    /\ expected_schema_version = SCHEMA_VERSION
    /\ target = Absent

\* validate called directly with any text
InitValidate ==
    /\ op = "validate" /\ pc = "validate"
    /\ prompts = 0
    /\ writer = "None" /\ generation_id = "None"
    /\ document \in ValidateInputs
    /\ errors = <<>> /\ current_doc = <<>> /\ current_errors = <<>>
    /\ seen_hashes = {} /\ attempt = 1
    /\ IdleCommit
    /\ max_attempts = MAX_ATTEMPTS
    /\ expected_schema_version = SCHEMA_VERSION
    /\ target = Absent

Init ==
    /\ exc = "None"
    /\ events = <<>>
    /\ results = <<>>
    /\ new_doc = <<>>
    /\ retry_result = NoRetryResult
    /\ gen_log = <<>> /\ val_log = <<>> /\ n_generate = 0
    /\ tmp = Absent
    /\ commit_result = NoCommitResult
    /\ content = <<>> /\ total_attempts = 0 /\ rejected_candidates = <<>>
    /\ gen_result = NoGenerateResult
    /\ (InitRetry \/ InitCommit \/ InitGenerate \/ InitValidate)
    /\ target0 = target
    /\ IdleWriter

Next ==
    \/ RetryLoopHead
    \/ RetryGenerate
    \/ RetryGenerateRaises
    \/ RetryValidate
    \/ RetryValidateRaises
    \/ CommitCheck
    \/ AwMkdir
    \/ AwMkstemp
    \/ AwWrite
    \/ AwReplace
    \/ AwCleanup
    \/ CommitFinish
    \/ GenerateProviderFails
    \/ GenerateStart
    \/ GenAfterRetry
    \/ GenFinish
    \/ ValidateCall
    \/ BatchNext

Spec == Init /\ [][Next]_vars

\* no pipeline entry point runs
IdlePipeline ==
    /\ op = "write" /\ pc = "done" /\ exc = "None"
    /\ prompts = 0 /\ results = <<>>
    /\ writer = "None" /\ generation_id = "None" /\ events = <<>>
    /\ IdleRetry /\ IdleCommit
    /\ max_attempts = MAX_ATTEMPTS /\ new_doc = <<>>
    /\ retry_result = NoRetryResult
    /\ gen_log = <<>> /\ val_log = <<>> /\ n_generate = 0
    /\ expected_schema_version = SCHEMA_VERSION
    /\ target = Absent /\ target0 = Absent /\ tmp = Absent
    /\ commit_result = NoCommitResult
    /\ content = <<>> /\ total_attempts = 0 /\ rejected_candidates = <<>>
    /\ gen_result = NoGenerateResult

\* NThreads threads, each about to call write once, all on one TelemetryWriter
\* or each on an instance of its own for the same path; the log file is absent,
\* empty, one line short of the threshold or at it, and the file with the
\* dated name is absent or left at the threshold by an earlier process
InitWriter ==
    /\ IdlePipeline
    /\ inst \in {[t \in Threads |-> 1], [t \in Threads |-> t]}
    /\ tpc = [t \in Threads |-> "idle"]
    /\ lock = [i \in Threads |-> 0]
    /\ w_path = [i \in Threads |-> 0]
    /\ t_target = [t \in Threads |-> 0]
    /\ t_event = [t \in Threads |-> "None"]
    /\ \E f0 \in {NoLog, OldLog(0), OldLog(ROTATION_BYTES - 1), OldLog(ROTATION_BYTES)},
          f1 \in {NoLog, OldLog(ROTATION_BYTES)} :
          files = [q \in 0..(NThreads + 1) |->
                      IF q = 0 THEN f0 ELSE IF q = 1 THEN f1 ELSE NoLog]

NextWriter ==
    \/ \E t \in Threads : WriteCall(t)
    \/ \E t \in Threads : WriteAcquire(t)
    \/ \E t \in Threads : WriteResolve(t)
    \/ \E t \in Threads : WriteOpen(t)
    \/ \E t \in Threads : WriteHead(t)
    \/ \E t \in Threads : WriteTail(t)
    \/ \E t \in Threads : WriteRelease(t)

SpecWriter == InitWriter /\ [][NextWriter]_vars

\* type-level sanity of the positions
PcOK ==
    pc \in {"retry_loop", "retry_generate", "retry_validate", "commit", "aw_mkdir",
            "aw_mkstemp", "aw_write", "aw_replace", "aw_cleanup", "commit_finish",
            "generate", "gen_after_retry", "gen_finish", "validate", "done",
            "batch_done", "raised"}

\* ---------------------------------------------------------------------------
\* Properties
\* ---------------------------------------------------------------------------

\* the error-severity entries of a list, in order
ErrorEntries(errs) ==
    LET I == {i \in 1..Len(errs) : errs[i].severity = "error"}
    IN [k \in 1..Cardinality(I) |->
          errs[CHOOSE i \in I : Cardinality({j \in I : j < i}) = k - 1]]

\* the (field, code) pairs of the error-severity entries of a list
BlockingPairs(errs) ==
    {<<errs[i].field, errs[i].code>> : i \in {j \in 1..Len(errs) : errs[j].severity = "error"}}

Distinct(s) == \A i, j \in 1..Len(s) : i # j => s[i] # s[j]

\* commit is running or has just returned or raised
InCommit ==
    \/ op = "commit"
    \/ pc \in {"commit", "aw_mkdir", "aw_mkstemp", "aw_write", "aw_replace",
               "aw_cleanup", "commit_finish", "gen_finish"}

\* C1: run_retry_loop never starts more than max_attempts generate_fn calls, and
\* the attempts value it returns is the number of generate_fn calls made.
C1_GenerateCallsBounded ==
    /\ n_generate <= max_attempts
    /\ retry_result.returned => retry_result.attempts = n_generate

\* C1 witness: a run that used all three attempts and reported exhaustion
C1_Witness ==
    /\ retry_result.returned
    /\ max_attempts = 3 /\ n_generate = 3
    /\ retry_result.abort_reason.tag = "max_attempts_reached"

\* C2: with an error-severity entry in the supplied list, commit leaves the
\* destination as it was, creates no temporary file, and returns
\* committed = false with exactly the supplied error-severity entries.
C2_BlockedCommitWritesNothing ==
    (InCommit /\ ErrorEntries(c_errors) # <<>>) =>
        /\ target = target0
        /\ tmp = Absent
        /\ exc = "None"
        /\ commit_result.returned =>
              /\ ~commit_result.committed
              /\ commit_result.path = "None"
              /\ commit_result.blocking_errors = ErrorEntries(c_errors)

\* C2 witness: commit returned on a list mixing a warning and an error, with
\* older content at the destination
C2_Witness ==
    /\ op = "commit" /\ commit_result.returned
    /\ Len(c_errors) = 2 /\ Len(ErrorEntries(c_errors)) = 1
    /\ target0.exists

C3_OnlyCommittedPersisted ==
    (op = "generate" /\ pc = "done" /\ target.exists) =>
        /\ commit_result.returned
        /\ commit_result.committed
        /\ target.content = c_document

\* the last two generate_fn calls returned the same text
LastTwoTextsEqual ==
    /\ Len(gen_log) >= 2
    /\ gen_log[Len(gen_log)] = gen_log[Len(gen_log) - 1]

\* C5 as stated: the same text on two consecutive calls ends the run with
\* identical_output and attempts = 2.
C5_IdenticalOutputAttemptsTwo ==
    LastTwoTextsEqual =>
        /\ retry_result.returned
        /\ ~retry_result.success
        /\ retry_result.abort_reason.tag = "identical_output"
        /\ retry_result.attempts = 2

\* C5 amended: the same text on two consecutive calls ends the run with
\* identical_output, attempts being the number of the second of those calls;
\* the repeated text is returned and validate_fn is not called on it.
C5_IdenticalOutputAbort ==
    LastTwoTextsEqual =>
        /\ retry_result.returned
        /\ ~retry_result.success
        /\ retry_result.abort_reason.tag = "identical_output"
        /\ retry_result.attempts = Len(gen_log)
        /\ n_generate = Len(gen_log)
        /\ retry_result.document = gen_log[Len(gen_log)]
        /\ Len(val_log) = Len(gen_log) - 1

\* C5 witness: the second and third calls returned the same text
C5_Witness ==
    /\ LastTwoTextsEqual
    /\ Len(gen_log) = 3
    /\ gen_log[1] # gen_log[2]
    /\ retry_result.returned

\* the error list of attempt i; attempt 0 is the caller's initial list
ErrSet(i) == IF i = 0 THEN errors ELSE val_log[i]

\* the text of attempt i; attempt 0 is the caller's document
TextOf(i) == IF i = 0 THEN document ELSE gen_log[i]

RepeatedBlockingPairs(n) == BlockingPairs(ErrSet(n - 1)) \cap BlockingPairs(ErrSet(n))

\* C6: when a (field, code) pair is blocking on two consecutive attempts with
\* different texts, the run aborts at the second of them with
\* convergence_failure naming such a pair, and no further generate_fn call is made.
C6_ConvergenceFailureNamesPair ==
    \A n \in 1..Len(val_log) :
        (RepeatedBlockingPairs(n) # {} /\ TextOf(n - 1) # TextOf(n)) =>
            /\ retry_result.returned
            /\ ~retry_result.success
            /\ retry_result.abort_reason.tag = "convergence_failure"
            /\ <<retry_result.abort_reason.field, retry_result.abort_reason.code>>
                  \in RepeatedBlockingPairs(n)
            /\ retry_result.attempts = n
            /\ n_generate = n
            /\ Len(val_log) = n

\* C7: with no error-severity entry in the initial list, run_retry_loop returns
\* success with attempts = 0, no abort reason and the input document, and calls
\* neither callback.
C7_NoBlockingErrorsImmediateSuccess ==
    (op = "run_retry_loop" /\ pc = "done" /\ ErrorEntries(errors) = <<>>) =>
        /\ retry_result.success
        /\ retry_result.attempts = 0
        /\ retry_result.abort_reason = NoReason
        /\ retry_result.document = document
        /\ n_generate = 0
        /\ val_log = <<>>

\* the domain values a list rejects with a blocking taxonomy violation
TaxonomyRejected(errs) ==
    {errs[i].received : i \in {j \in 1..Len(errs) :
        /\ errs[j].severity = "error"
        /\ errs[j].field = "domain"
        /\ errs[j].code = "E006_TAXONOMY_VIOLATION"}}

\* every generate_fn call so far returned a new text whose domain value the
\* taxonomy check rejected, each rejected value different
TaxonomyScenario ==
    /\ Len(gen_log) >= 1
    /\ Len(val_log) = Len(gen_log)
    /\ Distinct(gen_log)
    /\ \A i \in 1..Len(val_log) : TaxonomyRejected(val_log[i]) # {}
    /\ \A i, j \in 1..Len(val_log) :
          i # j => TaxonomyRejected(val_log[i]) \cap TaxonomyRejected(val_log[j]) = {}

\* C8 as stated: with max_attempts = 3 the taxonomy scenario makes all three
\* calls and ends with max_attempts_reached, the taxonomy violation still in
\* the returned errors.
C8_TaxonomyScenarioExhausts ==
    (retry_result.returned /\ max_attempts = 3 /\ TaxonomyScenario) =>
        /\ n_generate = 3
        /\ retry_result.abort_reason.tag = "max_attempts_reached"
        /\ TaxonomyRejected(retry_result.errors) # {}

\* C8 amended: with max_attempts = 3 the taxonomy scenario ends with
\* convergence_failure at the second call at the latest, never with
\* max_attempts_reached, the taxonomy violation still in the returned errors.
C8_TaxonomyScenarioConverges ==
    (retry_result.returned /\ max_attempts = 3 /\ TaxonomyScenario) =>
        /\ ~retry_result.success
        /\ retry_result.abort_reason.tag = "convergence_failure"
        /\ n_generate <= 2
        /\ retry_result.attempts = n_generate
        /\ TaxonomyRejected(retry_result.errors) = TaxonomyRejected(val_log[Len(val_log)])

\* C8 witness: two calls with different rejected domain values, then the abort
C8_Witness ==
    /\ retry_result.returned /\ max_attempts = 3 /\ TaxonomyScenario
    /\ n_generate = 2
    /\ retry_result.abort_reason.field = "domain"

\* C9: with distinct generated texts and no (field, code) pair blocking in two
\* consecutive error sets, a run that has a valid text within max_attempts
\* returns success with attempts = k and the k-th text, k the first valid one;
\* the only other ending is exhaustion with no valid text.
C9_SuccessAtFirstValidText ==
    (/\ retry_result.returned
     /\ ErrorEntries(errors) # <<>>
     /\ Distinct(gen_log)
     /\ \A n \in 1..Len(val_log) : RepeatedBlockingPairs(n) = {}) =>
        \/ /\ retry_result.success
           /\ Len(gen_log) >= 1
           /\ Len(val_log) = Len(gen_log)
           /\ retry_result.attempts = Len(gen_log)
           /\ retry_result.document = gen_log[Len(gen_log)]
           /\ ErrorEntries(val_log[Len(val_log)]) = <<>>
           /\ \A i \in 1..(Len(val_log) - 1) : ErrorEntries(val_log[i]) # <<>>
        \/ /\ ~retry_result.success
           /\ retry_result.abort_reason.tag = "max_attempts_reached"
           /\ n_generate = max_attempts
           /\ \A i \in 1..Len(val_log) : ErrorEntries(val_log[i]) # <<>>

\* the header is terminated and loads as a YAML mapping
WellFormedHeader(doc) ==
    /\ parse_frontmatter(doc).error = <<>>
    /\ parse_frontmatter(doc).metadata.kind = "dict"

\* the schema_version the YAML header of a document gives, None when it has none
HeaderVersion(doc) ==
    LET metadata == parse_frontmatter(doc).metadata
    IN IF WellFormedHeader(doc) /\ MetaGet(metadata, "schema_version").t # "NoneType"
       THEN Some(MetaGet(metadata, "schema_version").s)
       ELSE None

\* no blocking error supplied, and the header's schema_version is absent or
\* differs from the expected one
VersionRejectCase ==
    /\ InCommit
    /\ ErrorEntries(c_errors) = <<>>
    /\ WellFormedHeader(c_document)
    /\ HeaderVersion(c_document) # Some(expected_schema_version)

CommitEnded ==
    \/ op = "commit" /\ pc \in {"done", "raised"}
    \/ pc = "gen_finish"

\* the supplied list has no error-severity entry and the header's
\* schema_version is the expected one
CommitCase ==
    /\ ErrorEntries(c_errors) = <<>>
    /\ HeaderVersion(c_document) = Some(expected_schema_version)

LastText == IF gen_log = <<>> THEN document ELSE gen_log[Len(gen_log)]

\* the blocking errors validation last reported for a text of the run: those
\* validate_fn returned for it, else the caller's list for the input document
ReportedFor(text) ==
    LET I == {i \in 1..Len(val_log) : gen_log[i] = text}
    IN IF I # {}
       THEN ErrorEntries(val_log[CHOOSE i \in I : \A j \in I : j <= i])
       ELSE ErrorEntries(errors)

WarningEntries(errs) ==
    LET I == {i \in 1..Len(errs) : errs[i].severity = "warning"}
    IN [k \in 1..Cardinality(I) |->
          errs[CHOOSE i \in I : Cardinality({j \in I : j < i}) = k - 1]]

\* the list validation last gave for the returned document: the caller's list
\* on the zero-attempt path, else the last result of validate_fn
LastReport == IF gen_log = <<>> THEN errors ELSE val_log[Len(val_log)]

AttemptEvents == SelectSeq(events, LAMBDA e : e.event_type = "generation_attempt")

\* a writer and a generation id were given and the writer's writes succeed
TelemetryOn == writer = "ok" /\ generation_id # "None"

C15_LastAttemptEventFinal ==
    TelemetryOn =>
        /\ \A i \in 1..(Len(AttemptEvents) - 1) :
              /\ ~AttemptEvents[i].is_final_attempt
              /\ ~AttemptEvents[i].converged
        /\ (retry_result.returned /\ n_generate >= 1) =>
              /\ Len(AttemptEvents) >= 1
              /\ AttemptEvents[Len(AttemptEvents)].is_final_attempt
              /\ AttemptEvents[Len(AttemptEvents)].converged <=> retry_result.success

\* C15 witness: an exhausted run of three calls, the third event marked final
C15_Witness ==
    /\ TelemetryOn /\ retry_result.returned
    /\ retry_result.abort_reason.tag = "max_attempts_reached"
    /\ Len(AttemptEvents) = 3
    /\ AttemptEvents[3].is_final_attempt /\ ~AttemptEvents[3].converged

\* the SummaryEvents of the log, in the order written
SummaryEvents == SelectSeq(events, LAMBDA e : e.event_type = "generation_summary")

\* what the one SummaryEvent of an ended commit says
SummaryMatchesOutcome(e) ==
    /\ e.generation_id = generation_id
    /\ e.converged <=> (commit_result.returned /\ commit_result.committed)
    /\ e.converged => (e.abort_reason = "None" /\ target = File(c_document))
    /\ e.final_domain.some => (e.converged /\ target = File(c_document))
    /\ ~e.converged =>
          e.abort_reason = (IF ErrorEntries(c_errors) # <<>>
                            THEN "blocking_errors" ELSE "schema_version_mismatch")

\* C16: with telemetry on, a commit that has ended, however it ended, has
\* written exactly one SummaryEvent: abort_reason blocking_errors for a
\* blocking-error rejection, schema_version_mismatch for a version rejection,
\* converged with no abort reason, and a final_domain, only for a written document.
C16_OneSummaryEventPerCommit ==
    (TelemetryOn /\ CommitEnded) =>
        /\ Len(SummaryEvents) = 1
        /\ SummaryMatchesOutcome(SummaryEvents[1])

RECURSIVE RetryOutcome(_, _, _, _)
\* run_retry_loop as a function of its arguments and of what the callbacks
\* returned (gen_log, val_log), from attempt att on; no telemetry argument
\* occurs in it. NoRetryResult while a callback's answer is outstanding.
RetryOutcome(att, cur_doc, cur_errs, seen) ==
    IF att > max_attempts
    THEN RetryResult(FALSE, cur_doc, max_attempts,
                     AbortReason("max_attempts_reached", "", "", max_attempts), cur_errs)
    ELSE IF SelectSeqBy(cur_errs, "error") = <<>>
    THEN RetryResult(TRUE, cur_doc, att - 1, NoReason, <<>>)
    ELSE IF att > Len(gen_log) THEN NoRetryResult
    ELSE IF hash(gen_log[att]) \in seen
    THEN RetryResult(FALSE, gen_log[att], att,
                     AbortReason("identical_output", "", "", 0), cur_errs)
    ELSE IF att > Len(val_log) THEN NoRetryResult
    ELSE LET blocking == SelectSeqBy(val_log[att], "error")
             abort_reason == check_convergence(cur_errs, blocking)
         IN IF blocking = <<>>
            THEN RetryResult(TRUE, gen_log[att], att, NoReason, val_log[att])
            ELSE IF abort_reason # NoReason
            THEN RetryResult(FALSE, gen_log[att], att, abort_reason, blocking)
            ELSE RetryOutcome(att + 1, gen_log[att], blocking,
                              seen \cup {hash(gen_log[att])})

\* the result of a commit that returns, as a function of document, error list
\* and expected version; no telemetry argument occurs in it
CommitOutcome(doc, errs, expected) ==
    IF SelectSeqBy(errs, "error") # <<>>
    THEN CommitResult(FALSE, "None", SelectSeqBy(errs, "error"), expected)
    ELSE IF check_schema_version(doc, expected) # <<>>
    THEN CommitResult(FALSE, "None", check_schema_version(doc, expected), expected)
    ELSE CommitResult(TRUE, "output_path", <<>>, expected)

\* C17: telemetry does not influence the pipeline. Whatever the writer (absent,
\* working, raising on every write) and the generation id, the RetryResult is
\* the same function of the inputs and the callbacks' answers, the
\* CommitResult and the destination file the same function of the commit
\* inputs and the outcome of the write, and no exception of the writer leaves
\* run_retry_loop or commit.
C17_TelemetryNeverInfluences ==
    /\ exc # "TelemetryError"
    /\ retry_result.returned => retry_result = RetryOutcome(1, document, errors, {})
    /\ (InCommit /\ commit_result.returned) =>
          /\ commit_result = CommitOutcome(c_document, c_errors, expected_schema_version)
          /\ target = (IF commit_result.committed THEN File(c_document) ELSE target0)
    /\ (InCommit /\ ~commit_result.returned) =>
          target = (IF pc = "commit_finish" THEN File(c_document) ELSE target0)

\* C17 witness: a Pipeline.generate session whose writer raises on every write
\* went through a retry and a commit that wrote the document
C17_Witness ==
    /\ writer = "raises" /\ generation_id # "None"
    /\ retry_result.returned /\ retry_result.attempts >= 1
    /\ commit_result.returned /\ commit_result.committed
    /\ events = <<>>

\* all threads call write on one TelemetryWriter instance
Shared == \A t, u \in Threads : inst[t] = inst[u]

\* the thread is inside the with self._lock block
InSection(t) == tpc[t] \in {"resolve", "open", "write_head", "write_tail", "close"}

LogNames == DOMAIN files

\* the positions of the pieces a thread's call appended to a file
PiecesOf(t, q) == {k \in 1..Len(files[q].chunks) : files[q].chunks[k][1] = t}

\* the file holds the complete line of the thread's event, in one piece
CompleteLine(t, q) ==
    \E k \in 1..(Len(files[q].chunks) - 1) :
        /\ files[q].chunks[k] = <<t, "head">>
        /\ files[q].chunks[k + 1] = <<t, "tail">>

\* every line of the file is made of the two pieces of one event
NoMixedLine(q) ==
    LET c == files[q].chunks
    IN \A k \in 1..Len(c) :
          /\ c[k][2] = "head" => (k = Len(c) \/ c[k + 1] = <<c[k][1], "tail">>)
          /\ c[k][2] = "tail" => (k > 1 /\ c[k - 1] = <<c[k][1], "head">>)

\* C18: with all threads on one TelemetryWriter, at most one thread is inside
\* the resolve-and-append section at a time; no line of the log mixes two
\* events; a call that returned left exactly one complete line, a call that
\* raised or has not reached the append left nothing.
C18_WritesMutuallyExcluded ==
    Shared =>
        /\ Cardinality({t \in Threads : InSection(t)}) <= 1
        /\ \A q \in LogNames : NoMixedLine(q)
        /\ \A t \in Threads :
              /\ tpc[t] = "done" =>
                    /\ \E q \in LogNames : CompleteLine(t, q)
                    /\ Cardinality({q \in LogNames : PiecesOf(t, q) # {}}) = 1
                    /\ \A q \in LogNames : Cardinality(PiecesOf(t, q)) \in {0, 2}
              /\ tpc[t] \in {"idle", "TypeError", "acquire", "resolve", "open", "OSError"} =>
                    \A q \in LogNames : PiecesOf(t, q) = {}

\* C18 witness: every thread's call on the shared instance returned, the
\* lines of all of them in the log file
C18_Witness ==
    /\ Shared
    /\ \A t \in Threads : tpc[t] = "done"
    /\ Len(files[0].chunks) = 2 * NThreads

\* the current target of the instance the thread writes through
CurrentTarget(t) == w_path[inst[t]]

\* C19: with all threads on one TelemetryWriter, the rotation check, the
\* update of the target and the append are one critical section: a thread
\* between its rotation check and its release appends to the instance's
\* current target, the targets left behind are at or above the threshold and
\* receive no further piece, and every call that returned has its complete
\* line in the target it resolved.
C19_RotationInsideCriticalSection ==
    Shared =>
        /\ \A t \in Threads :
              tpc[t] \in {"open", "write_head", "write_tail", "close"} =>
                  t_target[t] = CurrentTarget(t)
        /\ \A t \in Threads : \A q \in LogNames :
              q < CurrentTarget(t) =>
                  /\ files[q].exists
                  /\ Size(files[q]) >= ROTATION_BYTES
                  /\ \A u \in Threads :
                        Cardinality(PiecesOf(u, q)) \in {0, 2}
        /\ \A t \in Threads : \A q \in LogNames :
              q > CurrentTarget(t) => files[q].chunks = <<>>
        /\ \A t \in Threads : tpc[t] = "done" => CompleteLine(t, t_target[t])

\* C19 witness: the threshold was crossed while the threads were writing: the
\* first line went to the log file, the instance switched, and the other
\* lines are in the dated file
C19_Witness ==
    /\ Shared
    /\ \A t \in Threads : tpc[t] = "done"
    /\ CurrentTarget(1) = 1
    /\ Len(files[0].chunks) = 2
    /\ Len(files[1].chunks) = 2 * (NThreads - 1)

\* the header block is absent, unterminated, not YAML, or YAML that is a list
\* or a scalar
StructureViolated(text) ==
    LET closers == {i \in 2..Len(text) : Strip(text[i], {" "}) = Marker}
        end == CHOOSE i \in closers : \A j \in closers : i <= j
    IN \/ text = <<>>
       \/ Strip(text[1], {" "}) # Marker
       \/ closers = {}
       \/ safe_load(SubSeq(text, 2, end - 1)).kind \in {"YAMLError", "list", "str"}

\* C20: validate returns a list for every text and never raises, and for a
\* header that is absent, unterminated, not YAML, or YAML that is not a mapping
\* the list is exactly one schema-structure-violation error on the frontmatter
C20_ValidateNeverRaises ==
    (op = "validate" /\ pc # "validate") =>
        /\ pc = "done" /\ exc = "None" /\ Len(val_log) = 1
        /\ StructureViolated(document) =>
               /\ Len(val_log[1]) = 1
               /\ val_log[1][1].code = ErrorCode.SCHEMA_VIOLATION
               /\ val_log[1][1].field = "frontmatter"

\* the calendar date a written value spells, 0 when it is none
WrittenDate(lines) ==
    IF lines = <<>> THEN 0
    ELSE LET v == Strip(AfterFirstColon(lines[1]), {" ", "\""})
         IN IF Join(v) \in {"2026-01-01", "2026-03-01"} THEN DateOrd(Join(v)) ELSE 0

\* the value is a timestamp with a time of day
WrittenTimestamp(lines) ==
    lines # <<>> /\ Join(Strip(AfterFirstColon(lines[1]), {" "})) \in DateTimeAtoms

\* positions of the entries of a list on the created/updated pair
SequenceErrors(errs) ==
    {i \in 1..Len(errs) : errs[i].field = "created/updated"
                            \/ errs[i].code = ErrorCode.DATE_SEQUENCE}

\* C21: for created and updated both calendar dates with created later than
\* updated, validate reports exactly one error on created/updated, with the
\* code DATE_SEQUENCE, and no date-format error; when a date is missing or
\* failed the format check no sequence error is reported
C21_DateSequenceError ==
    (op = "validate" /\ pc # "validate") =>
        \A c \in DateLines("created"), u \in DateLines("updated") :
            (document = DateDoc(c, u) /\ ~WrittenTimestamp(c) /\ ~WrittenTimestamp(u)) =>
                /\ pc = "done"
                /\ LET errs == val_log[1]
                       seq == SequenceErrors(errs)
                   IN IF WrittenDate(c) # 0 /\ WrittenDate(u) # 0
                      THEN IF WrittenDate(c) > WrittenDate(u)
                           THEN /\ Cardinality(seq) = 1
                                /\ \A i \in seq :
                                      /\ errs[i].code = ErrorCode.DATE_SEQUENCE
                                      /\ errs[i].field = "created/updated"
                                /\ \A i \in 1..Len(errs) :
                                      errs[i].code # ErrorCode.INVALID_DATE_FORMAT
                           ELSE seq = {}
                      ELSE seq = {}

\* the (field, code) pairs of a list
PairsOf(errs) == {<<errs[i].field, errs[i].code>> : i \in 1..Len(errs)}

SameTextSameError ==
    /\ op = "run_retry_loop" /\ retry_result.returned
    /\ errors # <<>> /\ ErrorEntries(errors) = errors
    /\ n_generate >= 1
    /\ \A i \in 1..Len(gen_log) : gen_log[i] = document
    /\ \A i \in 1..Len(val_log) : val_log[i] = errors

\* C23: when generate_fn keeps returning the caller's invalid document and
\* validate_fn keeps reporting the caller's blocking error, the run aborts
\* with identical_output and exactly one AttemptEvent is written, marked final
\* and not converged
C23_SameTextAbortsIdentical ==
    SameTextSameError =>
        /\ ~retry_result.success
        /\ retry_result.abort_reason.tag = "identical_output"
        /\ TelemetryOn =>
              /\ Len(AttemptEvents) = 1
              /\ AttemptEvents[1].is_final_attempt
              /\ ~AttemptEvents[1].converged

\* C24: no provider exception leaves Pipeline.generate: a failing generation
\* call, the first or one inside the retry loop, gives a failed GenerateResult
\* for its item, and batch_generate returns one result per prompt
C24_ProviderFailureStaysInItem ==
    op = "generate" =>
        /\ ~(pc = "raised" /\ exc = "generate_fn")
        /\ (gen_result.returned /\ gen_result.attempts = 0) => ~gen_result.success
        /\ Len(results) <= prompts
        /\ pc = "batch_done" => Len(results) = prompts

\* a call of Pipeline.generate has ended, by return or by raise
GenerateEnded == op = "generate" /\ pc \in {"done", "batch_done", "raised"}

\* the log of the session is zero or more AttemptEvents followed by one
\* SummaryEvent, all with the session's generation id
SessionLogComplete ==
    /\ Len(SummaryEvents) = 1
    /\ events # <<>>
    /\ events[Len(events)].event_type = "generation_summary"
    /\ \A i \in 1..Len(events) : events[i].generation_id = generation_id
    /\ \A i \in 1..(Len(events) - 1) : events[i].event_type = "generation_attempt"

\* C25: with telemetry on, every ended call of Pipeline.generate has left
\* zero or more AttemptEvents followed by exactly one SummaryEvent with its
\* generation id, however it ended
C25_SessionEndsWithOneSummary ==
    (TelemetryOn /\ GenerateEnded) => SessionLogComplete

\* the latest generated text equals a text generated earlier in the run
RepeatsEarlierText ==
    \E j \in 1..(Len(gen_log) - 1) : gen_log[j] = gen_log[Len(gen_log)]

C27_WarningsNeverConverge ==
    (retry_result.returned /\ retry_result.abort_reason.tag = "convergence_failure") =>
        <<retry_result.abort_reason.field, retry_result.abort_reason.code>>
            \in BlockingPairs(ErrSet(retry_result.attempts - 1))

\* C28: a document committed by Pipeline.generate is one on which validate
\* ran to completion and reported no blocking error
C28_CommittedOnlyIfValidated ==
    (op = "generate" /\ commit_result.returned /\ commit_result.committed) =>
        /\ ~validate(c_document).raised
        /\ ErrorEntries(validate(c_document).errors) = <<>>

\* C29: with all threads on one TelemetryWriter, the target a write has
\* resolved and is about to open is absent or below ROTATION_BYTES, so no
\* write appends to a file that is already at or above the threshold; the
\* instance's target never lies before a thread's resolved target
C29_NoAppendAtThreshold ==
    Shared =>
        \A t \in Threads :
            tpc[t] = "open" =>
                /\ t_target[t] = CurrentTarget(t)
                /\ \/ ~files[t_target[t]].exists
                   \/ Size(files[t_target[t]]) < ROTATION_BYTES

\* every thread writes through the TelemetryWriter of its own session
OwnWriters == \A t, u \in Threads : t # u => inst[t] # inst[u]

\* C30: the telemetry writes of concurrent Pipeline.generate sessions, each
\* through the TelemetryWriter its session built for the same log file, are
\* mutually excluded: at most one of them is between target selection and
\* the end of its append
C30_SessionsMutuallyExcluded ==
    OwnWriters => Cardinality({t \in Threads : InSection(t)}) <= 1

====
